---------------------------- MODULE Spec2Model ----------------------------
(***************************************************************************)
(* A model of scaletrail's selection-and-filtering core and of its init   *)
(* command:                                                                *)
(*   src/cli/scaletrail/utils/linode.py      price resolution, instance    *)
(*                                           and image catalog filters     *)
(*   src/cli/scaletrail/utils/cloudflare.py  DNS availability check        *)
(*   src/cli/scaletrail/cli.py               DNS plan, init                *)
(*                                                                         *)
(* Conventions.  A Python dict is a function whose DOMAIN is the set of    *)
(* keys it carries; a key whose value is None is modelled as an absent     *)
(* key, since the source reads these payloads through .get().  A str that  *)
(* the code lowers, strips, concatenates or orders is a sequence of        *)
(* one-character strings; a str that is only compared for equality (an id, *)
(* a class, a status, a region slug) is a TLA+ string.  A call ends in     *)
(* Returned(value) or Raised(exception).                                   *)
(***************************************************************************)
EXTENDS Integers, Sequences, FiniteSets, TLC

VARIABLES
    \* _pick_price / _pick_backup_price
    item, region_id, price, backup_price,
    \* get_instances_for_region
    resp, include_classes, instances,
    \* get_operating_systems_for_region: its arguments, the clock it reads,
    \* the results of two calls and the instants of the calls
    images_resp, include_vendors, public_only, exclude_eol,
    require_status_available, required_capabilities,
    now, oses, oses_at, oses_again, oses_again_at,
    \* subdomain_is_available, root_domain_is_availabile
    records, subdomain, root_domain, available, root_available,
    \* _planned_dns_records
    root, env_name, planned,
    \* init: where the run is, its bound local variables, the turn of the
    \* loop over envs, the prompts shown, the requests made, the
    \* availability checks made, the files written, the exit code, the
    \* exception that ended the run, and the first aborted prompt
    pc, locals, env_index, prompts, fetches, checks, files, exit_code,
    raised, aborted,
    \* choose_instance: the list it is given, that list object after the
    \* call, the choices of the prompt, and what the call returns
    given, listed, choices, chosen

priceVars == <<item, region_id, price, backup_price>>
instVars  == <<resp, include_classes, instances>>
imgArgs   == <<images_resp, include_vendors, public_only, exclude_eol,
               require_status_available, required_capabilities>>
imgVars   == <<imgArgs, now, oses, oses_at, oses_again, oses_again_at>>
dnsVars   == <<records, subdomain, root_domain, available, root_available>>
planVars  == <<root, env_name, planned>>
cliVars   == <<pc, locals, env_index, prompts, fetches, checks, files,
               exit_code, raised, aborted>>
chooseVars == <<given, listed, choices, chosen>>
vars == <<priceVars, instVars, imgVars, dnsVars, planVars, cliVars, chooseVars>>

---------------------------------------------------------------------------
(* Python values *)

Has(d, k) == k \in DOMAIN d

Pending     == [status |-> "pending"]
Returned(v) == [status |-> "returned", value |-> v]
Raised(e)   == [status |-> "raised", exc |-> e]

IsReturned(r) == r.status = "returned"
IsRaised(r)   == r.status = "raised"

\* A value that may be None where None and an empty list must be told
\* apart: None, or Some(v).
None    == <<>>
Some(v) == <<v>>

\* The sequences over S of length at most n.
SeqUpTo(S, n) == UNION {[1..k -> S] : k \in 0..n}

\* The indices of s, as a set.
Indices(s) == 1..Len(s)

---------------------------------------------------------------------------
(* Python str: lower(), strip(), ordering *)

UpperCase == <<"A", "B", "C", "D", "E", "F", "G", "H", "I", "J", "K", "L", "M",
               "N", "O", "P", "Q", "R", "S", "T", "U", "V", "W", "X", "Y", "Z">>
LowerCase == <<"a", "b", "c", "d", "e", "f", "g", "h", "i", "j", "k", "l", "m",
               "n", "o", "p", "q", "r", "s", "t", "u", "v", "w", "x", "y", "z">>

\* The characters of the model in code point order.
CodePoints == <<" ", "-", ".", "0", "1", "2", "3", "4", "5", "6", "7", "8", "9",
                "@">> \o UpperCase \o LowerCase

\* ord(c), as the place of c in CodePoints.
OrdOf == [c \in {CodePoints[i] : i \in DOMAIN CodePoints} |->
            CHOOSE i \in DOMAIN CodePoints : CodePoints[i] = c]

Ord(c) == OrdOf[c]

\* c.lower() for every character of the model.
LowerOf == [c \in {CodePoints[i] : i \in DOMAIN CodePoints} |->
            IF \E i \in DOMAIN UpperCase : UpperCase[i] = c
            THEN LowerCase[CHOOSE i \in DOMAIN UpperCase : UpperCase[i] = c]
            ELSE c]

LowerChar(c) == LowerOf[c]

\* c.upper() for every character of the model.
UpperOf == [c \in {CodePoints[i] : i \in DOMAIN CodePoints} |->
            IF \E i \in DOMAIN LowerCase : LowerCase[i] = c
            THEN UpperCase[CHOOSE i \in DOMAIN LowerCase : LowerCase[i] = c]
            ELSE c]

\* s.upper()
Upper(s) == [i \in DOMAIN s |-> UpperOf[s[i]]]

\* s.lower()
Lower(s) == [i \in DOMAIN s |-> LowerChar(s[i])]

\* s.lstrip(), s.rstrip(): the only whitespace of the model is " ".
RECURSIVE LStrip(_)
LStrip(s) == IF s = <<>> \/ Head(s) # " " THEN s ELSE LStrip(Tail(s))

RECURSIVE RStrip(_)
RStrip(s) == IF s = <<>> \/ s[Len(s)] # " " THEN s ELSE RStrip(SubSeq(s, 1, Len(s) - 1))

\* s.strip()
Strip(s) == RStrip(LStrip(s))

\* a < b for two str: at the first index where they differ the code point of
\* a is the smaller, or a is a proper prefix of b.
StrLess(a, b) ==
    \E k \in 1..(Len(b)) :
        /\ k <= Len(a) + 1
        /\ \A j \in 1..(k - 1) : a[j] = b[j]
        /\ (k = Len(a) + 1 \/ Ord(a[k]) < Ord(b[k]))

---------------------------------------------------------------------------
(* linode.py: _pick_price, _pick_backup_price *)

\* rp.get("id") == region_id
RpMatches(rp, rid) == Has(rp, "id") /\ rp.id = rid

\* The loop without its break: the index of the last entry whose id is
\* region_id, 0 when there is none.
FirstMatch_Last(rps, rid) ==
    IF \E i \in Indices(rps) : RpMatches(rps[i], rid)
    THEN CHOOSE i \in Indices(rps) :
            /\ RpMatches(rps[i], rid)
            /\ \A j \in Indices(rps) : j > i => ~RpMatches(rps[j], rid)
    ELSE 0

\* The for/break loop of _pick_price: the index of the first entry of
\* region_prices whose id is region_id, 0 when the loop ends without a break.
FirstMatch(rps, rid) ==
    IF \E i \in Indices(rps) : RpMatches(rps[i], rid)
    THEN CHOOSE i \in Indices(rps) :
            /\ RpMatches(rps[i], rid)
            /\ \A j \in 1..(i - 1) : ~RpMatches(rps[j], rid)
    ELSE 0

\* d.get(key, []) or []
ListOrEmpty(d, key) == IF Has(d, key) THEN d[key] ELSE <<>>

\* d.get(key, {}) or {}
DictOrEmpty(d, key) == IF Has(d, key) THEN d[key] ELSE <<>>

\* Resolved with the region override never applied.
Resolved_BaseOnly(base, rps, rid, f) ==
    IF Has(base, f) THEN {base[f]} ELSE {}

\* The value of the local `hourly` / `monthly` (field f) when the loop of
\* _pick_price ends, as a set: {} is None, {n} is the number n.
\*   hourly = base.get("hourly"); ... hourly = rp.get("hourly", hourly)
Resolved(base, rps, rid, f) ==
    LET m == FirstMatch(rps, rid)
    IN  IF m # 0 /\ Has(rps[m], f) THEN {rps[m][f]}
        ELSE IF Has(base, f) THEN {base[f]}
        ELSE {}

\* float(x): the number itself (5 == 5.0 in Python); float(None) raises.
FloatOf(x) == CHOOSE n \in x : TRUE

\* {"hourly": float(hourly), "monthly": float(monthly)}
PriceDict(base, rps, rid) ==
    LET hourly  == Resolved(base, rps, rid, "hourly")
        monthly == Resolved(base, rps, rid, "monthly")
    IN  IF hourly = {} \/ monthly = {}
        THEN Raised("TypeError")
        ELSE Returned([hourly |-> FloatOf(hourly), monthly |-> FloatOf(monthly)])

pick_price(itm, rid) ==
    PriceDict(DictOrEmpty(itm, "price"), ListOrEmpty(itm, "region_prices"), rid)

\* (item.get("addons") or {}).get("backups"); an empty dict is falsy.
BackupsOf(itm) ==
    LET addons == DictOrEmpty(itm, "addons")
    IN  IF Has(addons, "backups") THEN addons.backups ELSE <<>>

\* The backup price resolved against the region_prices of the item instead
\* of those of the add-on.
pick_backup_price_ItemOverrides(itm, rid) ==
    LET backups == BackupsOf(itm)
    IN  IF DOMAIN backups = {}
        THEN Returned(<<>>)
        ELSE PriceDict(DictOrEmpty(backups, "price"),
                       ListOrEmpty(itm, "region_prices"), rid)

\* Returned(<<>>) stands for `return None`.
pick_backup_price(itm, rid) ==
    LET backups == BackupsOf(itm)
    IN  IF DOMAIN backups = {}
        THEN Returned(<<>>)
        ELSE PriceDict(DictOrEmpty(backups, "price"),
                       ListOrEmpty(backups, "region_prices"), rid)

---------------------------------------------------------------------------
(* linode.py: get_instances_for_region *)

\* include_classes and itm.get("class") not in include_classes
ClassSkipped(itm, classes) ==
    /\ classes # <<>>
    /\ ~(Has(itm, "class") /\ \E i \in Indices(classes) : classes[i] = itm.class)

\* The dict appended for one catalog item (the fields the claims read).
NormalizedInstance(itm, p, b) ==
    [id |-> itm.id, price_hourly |-> p.hourly, price_monthly |-> p.monthly]
    @@ (IF Has(itm, "class") THEN [class |-> itm.class] ELSE <<>>)
    @@ (IF DOMAIN b = {} THEN <<>>
        ELSE [backups_hourly |-> b.hourly, backups_monthly |-> b.monthly])

\* The loop over resp["data"], from item k on, with `out` as built so far.
\* The first item whose price cannot be converted ends the call with the
\* TypeError of float(None).
RECURSIVE InstancesFrom(_, _, _, _, _)
InstancesFrom(data, k, rid, classes, out) ==
    IF k > Len(data) THEN Returned(out)
    ELSE IF ClassSkipped(data[k], classes)
         THEN InstancesFrom(data, k + 1, rid, classes, out)
    ELSE LET p == pick_price(data[k], rid)
             b == pick_backup_price(data[k], rid)
         IN  IF IsRaised(p) THEN p
             ELSE IF IsRaised(b) THEN b
             ELSE InstancesFrom(data, k + 1, rid, classes,
                    Append(out, NormalizedInstance(data[k], p.value, b.value)))

get_instances_for_region(r, rid, classes) ==
    InstancesFrom(ListOrEmpty(r, "data"), 1, rid, classes, <<>>)

---------------------------------------------------------------------------
(* linode.py: _parse_iso, _eol_has_passed *)

\* An eol string is [form |-> "iso", wall |-> t, tz |-> z]: an ISO-8601 text
\* whose date and time fields read t (in whole hours) and whose zone
\* designator z is "" (none), "Z" or "+01:00"; or [form |-> "malformed"], a
\* text datetime.fromisoformat rejects; or [form |-> "empty"], the str "".
\*
\* _parse_iso as a set: {} is None, {t} is the aware datetime t UTC.
\*   dt.replace("Z", "") removes the designator "Z"; fromisoformat keeps the
\*   fields of the text; .replace(tzinfo=timezone.utc) then sets the zone to
\*   UTC and leaves the fields as they are, whatever offset the text carried.
parse_iso(dt) ==
    IF DOMAIN dt = {} \/ dt.form = "empty" THEN {}
    ELSE IF dt.form = "malformed" THEN {}
    ELSE {dt.wall}

\* eol_passed with now > dt in place of now >= dt.
eol_has_passed_Strict(eol, clock) ==
    LET dt == parse_iso(eol)
    IN  IF dt = {} THEN FALSE ELSE \E t \in dt : clock > t

\* _eol_has_passed(eol), with datetime.now(timezone.utc) read as `clock`.
eol_has_passed(eol, clock) ==
    LET dt == parse_iso(eol)
    IN  IF dt = {} THEN FALSE ELSE \E t \in dt : clock >= t

---------------------------------------------------------------------------
(* linode.py: get_operating_systems_for_region *)

\* d.get(key) for a str or dict value: <<>> stands for None (and for "").
GetOrNone(d, key) == IF Has(d, key) THEN d[key] ELSE <<>>

\* vendor_allow is not None
VendorFilterOn(vendors) == vendors # <<>>

\* The allow-list with its entries lowered as they are given.
VendorAllow_AsGiven(vendors) == {Lower(vendors[i]) : i \in DOMAIN vendors}

\* {v.strip().lower() for v in include_vendors if v and v.strip()}
VendorAllow(vendors) ==
    {Lower(Strip(vendors[i])) : i \in {j \in DOMAIN vendors : Strip(vendors[j]) # <<>>}}

\* {c.strip() for c in required_capabilities if c and c.strip()}; the empty
\* set also stands for need_caps = None, which the code tests the same way.
NeedCaps(caps) ==
    {Strip(caps[i]) : i \in {j \in DOMAIN caps : Strip(caps[j]) # <<>>}}

\* vendor = (img.get("vendor") or "").strip()
VendorOf(img) == Strip(GetOrNone(img, "vendor"))

\* caps = img.get("capabilities") or []
CapsOf(img) == GetOrNone(img, "capabilities")

\* public_only and not img.get("is_public", False)
PublicDropped(img, ponly) == ponly /\ ~(Has(img, "is_public") /\ img.is_public)

\* vendor_allow is not None and vendor.lower() not in vendor_allow
VendorDropped(img, vendors) ==
    VendorFilterOn(vendors) /\ Lower(VendorOf(img)) \notin VendorAllow(vendors)

\* require_status_available and img.get("status") != "available"
StatusDropped(img, rsa) == rsa /\ ~(Has(img, "status") /\ img.status = "available")

\* need_caps and not need_caps.issubset(set(caps))
CapsDropped(img, caps) ==
    LET need == NeedCaps(caps)
        have == {CapsOf(img)[i] : i \in DOMAIN CapsOf(img)}
    IN  need # {} /\ ~(need \subseteq have)

\* Region gating with an empty regions list taken as "available nowhere".
RegionDropped_EmptyMeansNowhere(img, rid) ==
    /\ Has(img, "regions")
    /\ rid \notin {img.regions[i] : i \in DOMAIN img.regions}

\* isinstance(regions, list) and len(regions) > 0 and region_id not in regions
RegionDropped(img, rid) ==
    /\ Has(img, "regions")
    /\ Len(img.regions) > 0
    /\ rid \notin {img.regions[i] : i \in DOMAIN img.regions}

\* deprecated = bool(img.get("deprecated"))
DeprecatedOf(img) == Has(img, "deprecated") /\ img.deprecated

\* exclude_eol and (deprecated or eol_passed)
EolDropped(img, xeol, clock) ==
    xeol /\ (DeprecatedOf(img) \/ eol_has_passed(GetOrNone(img, "eol"), clock))

\* The record appended for one image (description, size, created and updated
\* are copied as they are and left out here).
NormalizedImage(img, clock) ==
    [id |-> img.id,
     is_public |-> Has(img, "is_public") /\ img.is_public,
     deprecated |-> DeprecatedOf(img),
     eol_passed |-> eol_has_passed(GetOrNone(img, "eol"), clock),
     capabilities |-> CapsOf(img)]
    @@ (IF VendorOf(img) # <<>> THEN [vendor |-> VendorOf(img)] ELSE <<>>)
    @@ (IF Has(img, "label") THEN [label |-> img.label] ELSE <<>>)
    @@ (IF Has(img, "eol") THEN [eol |-> img.eol] ELSE <<>>)
    @@ (IF Has(img, "regions") THEN [regions |-> img.regions] ELSE <<>>)
    @@ (IF Has(img, "status") THEN [status |-> img.status] ELSE <<>>)

\* The six `continue` tests of the loop body, in the order of the code.
ImageSkipped(img, rid, vendors, ponly, xeol, rsa, caps, clock) ==
    \/ PublicDropped(img, ponly)
    \/ VendorDropped(img, vendors)
    \/ StatusDropped(img, rsa)
    \/ CapsDropped(img, caps)
    \/ RegionDropped(img, rid)
    \/ EolDropped(img, xeol, clock)

\* `out` when the loop over images_resp["data"] ends.
RECURSIVE ImagesFrom(_, _, _, _, _, _, _, _, _, _)
ImagesFrom(data, k, rid, vendors, ponly, xeol, rsa, caps, clock, out) ==
    IF k > Len(data) THEN out
    ELSE ImagesFrom(data, k + 1, rid, vendors, ponly, xeol, rsa, caps, clock,
            IF ImageSkipped(data[k], rid, vendors, ponly, xeol, rsa, caps, clock)
            THEN out
            ELSE Append(out, NormalizedImage(data[k], clock)))

\* The sort key: ((x.get("vendor") or "").lower(), (x.get("label") or "").lower())
VendorKey(x) == Lower(GetOrNone(x, "vendor"))
LabelKey(x)  == Lower(GetOrNone(x, "label"))

\* key(x) < key(y), as Python orders tuples.
KeyLess(x, y) ==
    \/ StrLess(VendorKey(x), VendorKey(y))
    \/ VendorKey(x) = VendorKey(y) /\ StrLess(LabelKey(x), LabelKey(y))

\* A sort that puts an element before the elements of equal key already
\* placed: not stable.
RECURSIVE SortFrom_Unstable(_, _, _)
SortFrom_Unstable(s, k, sorted) ==
    IF k > Len(s) THEN sorted
    ELSE LET before == Cardinality({i \in DOMAIN sorted : KeyLess(sorted[i], s[k])})
         IN  SortFrom_Unstable(s, k + 1,
                SubSeq(sorted, 1, before) \o <<s[k]>>
                    \o SubSeq(sorted, before + 1, Len(sorted)))

\* list.sort(key=...): stable.  The elements of s from index k on are put,
\* one by one, into `sorted` (already in order) behind every element whose
\* key is not greater.
RECURSIVE SortFrom(_, _, _)
SortFrom(s, k, sorted) ==
    IF k > Len(s) THEN sorted
    ELSE LET before == Cardinality({i \in DOMAIN sorted : ~KeyLess(s[k], sorted[i])})
         IN  SortFrom(s, k + 1,
                SubSeq(sorted, 1, before) \o <<s[k]>>
                    \o SubSeq(sorted, before + 1, Len(sorted)))

get_operating_systems_for_region(r, rid, vendors, ponly, xeol, rsa, caps, clock) ==
    Returned(SortFrom(ImagesFrom(ListOrEmpty(r, "data"), 1, rid, vendors, ponly,
                                 xeol, rsa, caps, clock, <<>>),
                      1, <<>>))

---------------------------------------------------------------------------
(* cloudflare.py: subdomain_is_available, root_domain_is_availabile *)

At  == <<"@">>
Dot == <<".">>
TypeA     == <<"A">>
TypeCNAME == <<"C", "N", "A", "M", "E">>

\* not subdomain or subdomain in ("@", "", root_domain)
IsRootTarget(sub, rootdom) == sub = <<>> \/ sub = At \/ sub = rootdom

\* target_name
TargetName(sub, rootdom) ==
    IF IsRootTarget(sub, rootdom)
    THEN Lower(rootdom)
    ELSE Lower(sub \o Dot \o rootdom)

\* The test of the loop body with the record type compared as it is.
RecordTaken_TypeAsIs(record, target) ==
    /\ GetOrNone(record, "type") \in {TypeA, TypeCNAME}
    /\ Lower(GetOrNone(record, "name")) = target

\* record_type in ("A", "CNAME") and record_name == target_name, with
\* record.get("name", "").lower() and record.get("type", "").upper()
RecordTaken(record, target) ==
    /\ Upper(GetOrNone(record, "type")) \in {TypeA, TypeCNAME}
    /\ Lower(GetOrNone(record, "name")) = target

\* `for record in records` raises TypeError when records is None.
subdomain_is_available(recs, sub, rootdom) ==
    IF recs = None THEN Raised("TypeError")
    ELSE LET list == recs[1]
         IN  Returned(~\E i \in DOMAIN list :
                        RecordTaken(list[i], TargetName(sub, rootdom)))

root_domain_is_availabile(recs, rootdom) == subdomain_is_available(recs, <<>>, rootdom)

---------------------------------------------------------------------------
(* cli.py: _planned_dns_records *)

Prod       == <<"p", "r", "o", "d">>
Production == <<"p", "r", "o", "d", "u", "c", "t", "i", "o", "n">>
Api        == <<"a", "p", "i">>
Www        == <<"w", "w", "w">>
Hyphen     == <<"-">>
TBD == <<"T", "B", "D", " ", "(", "a", "f", "t", "e", "r", " ",
         "c", "r", "e", "a", "t", "e", ")">>

\* The test with env_name compared as it is.
IsNonProd_CaseSensitive(env) == env # <<>> /\ env \notin {Prod, Production}

\* env_name and env_name.lower() not in ("prod", "production")
IsNonProd(env) == env # <<>> /\ Lower(env) \notin {Prod, Production}

PlannedRecord(name, type, content) ==
    [Name |-> name, Type |-> type, Content |-> content,
     Proxy |-> "Proxied", TTL |-> "Auto"]

\* The record of a non-prod environment named f"{env_name}.{root}".
NonProdRecords_NoApiSuffix(r, env) ==
    <<PlannedRecord(env \o Dot \o r, "A", TBD)>>

\* <env>-api.<root>
NonProdRecords(r, env) ==
    <<PlannedRecord(env \o Hyphen \o Api \o Dot \o r, "A", TBD)>>

\* api.<root>, and the www CNAME to the apex
ProdRecords(r) ==
    <<PlannedRecord(Api \o Dot \o r, "A", TBD),
      PlannedRecord(Www \o Dot \o r, "CNAME", r)>>

planned_dns_records(r, env) ==
    Returned(IF IsNonProd(env) THEN NonProdRecords(r, env) ELSE ProdRecords(r))

---------------------------------------------------------------------------
(* linode.py: the continents and their regions *)

NorthAmerica   == <<"N", "o", "r", "t", "h", " ", "A", "m", "e", "r", "i", "c", "a">>
Europe         == <<"E", "u", "r", "o", "p", "e">>
Asia           == <<"A", "s", "i", "a">>
SouthAmerica   == <<"S", "o", "u", "t", "h", " ", "A", "m", "e", "r", "i", "c", "a">>
Oceania        == <<"O", "c", "e", "a", "n", "i", "a">>
ShowAllRegions == <<"S", "h", "o", "w", " ", "a", "l", "l", " ", "r", "e", "g", "i", "o", "n", "s">>

CONTINENT_CHOICES ==
    <<NorthAmerica, Europe, Asia, SouthAmerica, Oceania, ShowAllRegions>>

NORTH_AMERICA_LINODE_REGIONS ==
    <<"ca-central", "us-central", "us-east", "us-iad", "us-lax", "us-mia",
      "us-ord", "us-sea", "us-southeast", "us-west">>

EUROPE_LINODE_REGIONS ==
    <<"de-fra-2", "es-mad", "eu-central", "eu-west", "fr-par", "gb-lon",
      "it-mil", "nl-ams", "se-sto">>

ASIA_LINODE_REGIONS ==
    <<"ap-northeast", "ap-south", "ap-west", "id-cgk", "in-bom-2",
      "in-maa", "jp-osa", "jp-tyo-3", "sg-sin-2">>

SOUTH_AMERICA_LINODE_REGIONS ==
    <<"br-gru">>

OCEANIA_LINODE_REGIONS ==
    <<"au-mel", "ap-southeast">>

\* The dict, as its keys in order and the value of each key.
ContinentKeys == <<NorthAmerica, Europe, Asia, SouthAmerica, Oceania>>

CONTINENT_TO_REGIONS ==
    (NorthAmerica :> NORTH_AMERICA_LINODE_REGIONS)
    @@ (Europe :> EUROPE_LINODE_REGIONS)
    @@ (Asia :> ASIA_LINODE_REGIONS)
    @@ (SouthAmerica :> SOUTH_AMERICA_LINODE_REGIONS)
    @@ (Oceania :> OCEANIA_LINODE_REGIONS)

\* include_vendors of the call in init
InitVendors ==
    <<<<"A", "l", "m", "a", "L", "i", "n", "u", "x">>,
      <<"A", "l", "p", "i", "n", "e">>,
      <<"A", "r", "c", "h">>,
      <<"C", "e", "n", "t", "O", "S">>,
      <<"D", "e", "b", "i", "a", "n">>,
      <<"F", "e", "d", "o", "r", "a">>,
      <<"K", "a", "l", "i">>,
      <<"G", "e", "n", "t", "o", "o">>,
      <<"O", "p", "e", "n", "S", "u", "s", "e">>,
      <<"R", "o", "c", "k", "y", " ", "L", "i", "n", "u", "x">>,
      <<"S", "l", "a", "c", "k", "w", "a", "r", "e">>,
      <<"U", "b", "u", "n", "t", "u">>>>

---------------------------------------------------------------------------
(* linode.py: choose_instance, choose_os *)

\* An answer to an inquirer prompt: None when the user aborts it, Some(id)
\* when they pick the choice of value id.
\*
\* The first element of seq whose id is wanted, or None.
FirstWithId(seq, wanted) ==
    LET hits == {k \in DOMAIN seq : seq[k].id = wanted}
    IN  IF hits = {} THEN None
        ELSE Some(seq[CHOOSE k \in hits : \A h \in hits : k <= h])

\* x.get("price_monthly", 0)
PriceMonthlyKey(x) == IF Has(x, "price_monthly") THEN x.price_monthly ELSE 0

\* A sort by the key that puts an element before the elements of equal key
\* already placed: not stable.
RECURSIVE SortedByPrice_TiesReversed(_, _, _)
SortedByPrice_TiesReversed(s, k, sorted) ==
    IF k > Len(s) THEN sorted
    ELSE LET before == Cardinality({i \in DOMAIN sorted :
                            PriceMonthlyKey(sorted[i]) < PriceMonthlyKey(s[k])})
         IN  SortedByPrice_TiesReversed(s, k + 1,
                SubSeq(sorted, 1, before) \o <<s[k]>>
                    \o SubSeq(sorted, before + 1, Len(sorted)))

\* sorted(instances, key=...): stable.  The elements of s from index k on
\* are put, one by one, into `sorted` (already in order) behind every
\* element whose key is not greater.
RECURSIVE SortedByPrice(_, _, _)
SortedByPrice(s, k, sorted) ==
    IF k > Len(s) THEN sorted
    ELSE LET before == Cardinality({i \in DOMAIN sorted :
                            PriceMonthlyKey(sorted[i]) <= PriceMonthlyKey(s[k])})
         IN  SortedByPrice(s, k + 1,
                SubSeq(sorted, 1, before) \o <<s[k]>>
                    \o SubSeq(sorted, before + 1, Len(sorted)))

\* instances_sorted
instances_sorted(insts) == SortedByPrice(insts, 1, <<>>)

\* sorted() builds a new list: the list it is given stays as it is.
AfterSorted(insts) == insts

\* choices = [(formatting._row(inst), inst["id"]) for inst in instances_sorted]:
\* the row is drawn from the instance, the value is its id.
InstanceChoices(insts) ==
    [k \in DOMAIN instances_sorted(insts) |->
        [row |-> instances_sorted(insts)[k], value |-> instances_sorted(insts)[k].id]]

choose_instance(insts, answer) ==
    IF answer = None THEN None ELSE FirstWithId(insts, answer[1])

\* choose_os asks nothing when there is no image to choose from.
OsIsPrompted(images) == images # <<>>

choose_os(images, answer) ==
    IF ~OsIsPrompted(images) \/ answer = None THEN None
    ELSE FirstWithId(images, answer[1])

---------------------------------------------------------------------------
(* cloudflare.py: get_cloudflare_zone_id, get_cloudflare_dns_records *)

\* An HTTP response is [status_code |-> n, json |-> dict].  Both functions
\* are given here the response their request receives.
HttpOk == 200

get_cloudflare_zone_id(response) ==
    IF /\ response.status_code = HttpOk
       /\ Has(response.json, "success") /\ response.json.success
       /\ ListOrEmpty(response.json, "result") # <<>>
    THEN Some(response.json.result[1].id)
    ELSE None

get_cloudflare_dns_records(response) ==
    IF /\ response.status_code = HttpOk
       /\ Has(response.json, "success") /\ response.json.success
    THEN Some(ListOrEmpty(response.json, "result"))
    ELSE None

---------------------------------------------------------------------------
(* Inputs of the price resolver and of the instance catalog filter *)

MaxRegionPrices == 2
MaxCatalog == 2

\* "us-east" carries no override in any payload below; "nowhere" is no
\* region of the provider at all.
RegionIds == {"us-east", "br-gru", "nowhere"}

\* An optional key: every dict [key |-> v] for v in values, and the dict
\* without the key.
Opt(key, values) == {<<>>} \cup {(key :> v) : v \in values}

BasePrices == {b1 @@ b2 : b1 \in Opt("hourly", {1}), b2 \in Opt("monthly", {10})}

RegionPriceEntries ==
    {i @@ h @@ m : i \in {"id" :> "br-gru", "id" :> "id-cgk"},
                   h \in Opt("hourly", {2, 3}), m \in Opt("monthly", {20})}
    \cup {[hourly |-> 2, monthly |-> 20]}

BackupAddons ==
    { <<>>,
      [backups |-> <<>>],
      [backups |-> [price |-> [hourly |-> 4, monthly |-> 40]]],
      [backups |-> [price |-> [hourly |-> 4, monthly |-> 40],
                    region_prices |-> <<[id |-> "br-gru", hourly |-> 5, monthly |-> 50]>>]],
      [backups |-> [region_prices |-> <<[id |-> "br-gru", hourly |-> 5, monthly |-> 50]>>]] }

PriceItems ==
    {p @@ r @@ a : p \in Opt("price", BasePrices \ {<<>>}),
                   r \in Opt("region_prices", SeqUpTo(RegionPriceEntries, MaxRegionPrices)),
                   a \in Opt("addons", BackupAddons \ {<<>>})}

FullPrice == [hourly |-> 1, monthly |-> 10]

CatalogItems ==
    { [id |-> "g6-nanode-1", class |-> "nanode", price |-> FullPrice],
      [id |-> "g6-standard-2", class |-> "standard", price |-> FullPrice,
       region_prices |-> <<[id |-> "br-gru", hourly |-> 2, monthly |-> 20]>>],
      [id |-> "g6-dedicated-2", class |-> "dedicated", price |-> FullPrice,
       addons |-> [backups |-> [price |-> [hourly |-> 4, monthly |-> 40]]]],
      [id |-> "g1-gpu-rtx6000-1", class |-> "gpu", price |-> FullPrice],
      [id |-> "g1-gpu-unpriced", class |-> "gpu"],
      [id |-> "g6-nanode-unpriced", class |-> "nanode"],
      [id |-> "g6-standard-br-only", class |-> "standard",
       region_prices |-> <<[id |-> "br-gru", hourly |-> 2, monthly |-> 20]>>],
      [id |-> "g6-dedicated-nobackup-price", class |-> "dedicated", price |-> FullPrice,
       addons |-> [backups |-> [region_prices |-> <<>>]]],
      [id |-> "unclassified", price |-> FullPrice] }

\* include_classes: None/empty, or a list of classes (cli.py passes the last).
ClassLists ==
    { <<>>, <<"nanode">>, <<"gpu">>,
      <<"nanode", "standard", "dedicated", "premium">> }

Catalogs == Opt("data", SeqUpTo(CatalogItems, MaxCatalog))

---------------------------------------------------------------------------
(* Inputs of the image catalog filter *)

MaxImages == 2
MaxNow == 2

Ubuntu    == <<"U", "b", "u", "n", "t", "u">>
ubuntu    == <<"u", "b", "u", "n", "t", "u">>
Debian    == <<"D", "e", "b", "i", "a", "n">>
CloudInit == <<"c", "l", "o", "u", "d", "-", "i", "n", "i", "t">>
Blank     == <<" ">>

\* A public, available, cloud-init image of no stated region, not deprecated
\* and with no eol.
BaseImage ==
    [id |-> "linode/ubuntu24.04", vendor |-> Ubuntu, label |-> <<"b">>,
     is_public |-> TRUE, status |-> "available", capabilities |-> <<CloudInit>>,
     deprecated |-> FALSE]

\* BaseImage under another id with some keys replaced (with) or dropped (without).
Variant(id, without, with) ==
    LET kept == (DOMAIN BaseImage \ without) \ (DOMAIN with \cup {"id"})
    IN  [id |-> id] @@ with @@ [k \in kept |-> BaseImage[k]]

Images ==
    { BaseImage,
      \* the same sort key as BaseImage; nothing here is a reason to drop it
      Variant("linode/ubuntu22.04", {"deprecated"},
              [vendor |-> ubuntu, label |-> <<"B">>, regions |-> <<>>,
               eol |-> [form |-> "malformed"]]),
      Variant("linode/debian12", {},
              [vendor |-> Debian, label |-> <<"a">>, regions |-> <<"us-east">>]),
      Variant("linode/ubuntu20.04", {},
              [vendor |-> Blank \o Ubuntu \o Blank, label |-> <<"a">>,
               regions |-> <<"us-west", "eu-west">>, eol |-> [form |-> "empty"]]),
      Variant("private/unnamed", {"vendor", "label", "capabilities"}, <<>>),
      Variant("private/12345", {}, [is_public |-> FALSE]),
      Variant("linode/no-visibility", {"is_public"}, <<>>),
      Variant("linode/creating", {}, [status |-> "creating"]),
      Variant("linode/debian10", {}, [deprecated |-> TRUE]),
      Variant("linode/eol-0", {}, [eol |-> [form |-> "iso", wall |-> 0, tz |-> ""]]),
      Variant("linode/eol-1z", {}, [eol |-> [form |-> "iso", wall |-> 1, tz |-> "Z"]]),
      \* the same sort key as linode/debian12
      Variant("linode/eol-1plus1", {},
              [vendor |-> Debian, label |-> <<"a">>,
               eol |-> [form |-> "iso", wall |-> 1, tz |-> "+01:00"]]) }

\* The call of cli.py, with its vendor list cut to two names.
DefaultCall ==
    [region_id |-> "us-east", include_vendors |-> <<Debian, Ubuntu>>,
     public_only |-> TRUE, exclude_eol |-> TRUE,
     require_status_available |-> TRUE, required_capabilities |-> <<>>]

\* The call of cli.py and the calls that differ from it in one argument.
ImageCalls ==
    {DefaultCall}
    \cup {[DefaultCall EXCEPT !.region_id = r] : r \in {"us-west", "nowhere"}}
    \cup {[DefaultCall EXCEPT !.include_vendors = v] :
            v \in {<<>>, <<Blank \o ubuntu \o Blank>>, <<Blank>>}}
    \cup {[DefaultCall EXCEPT !.public_only = FALSE],
          [DefaultCall EXCEPT !.exclude_eol = FALSE],
          [DefaultCall EXCEPT !.require_status_available = FALSE]}
    \cup {[DefaultCall EXCEPT !.required_capabilities = c] :
            c \in {<<Blank \o CloudInit, Blank>>, <<Blank>>}}

ImagePayloads == Opt("data", SeqUpTo(Images, MaxImages))

---------------------------------------------------------------------------
(* Inputs of the DNS availability check and of the DNS plan *)

MaxRecords == 2

ExampleCom == <<"e", "x", "a", "m", "p", "l", "e", ".", "c", "o", "m">>
Dev        == <<"d", "e", "v">>
Staging    == <<"s", "t", "a", "g", "i", "n", "g">>
TypeMX     == <<"M", "X">>

DnsRecord(name, type) == [name |-> name, type |-> type]

\* Existing records of the zone: of the apex and of the names init asks
\* about, in either case, of types that count and of types that do not, and
\* records that lack a name or a type.
ZoneRecords ==
    { DnsRecord(ExampleCom, TypeA),
      DnsRecord(Upper(ExampleCom), Lower(TypeCNAME)),
      DnsRecord(ExampleCom, TypeMX),
      DnsRecord(Dev \o Dot \o ExampleCom, Lower(TypeA)),
      DnsRecord(Upper(Dev \o Dot \o ExampleCom), TypeCNAME),
      DnsRecord(Dev \o Dot \o ExampleCom, <<"T", "X", "T">>),
      DnsRecord(Www \o Dot \o ExampleCom, TypeCNAME),
      DnsRecord(Dev \o Hyphen \o Api \o Dot \o ExampleCom, TypeA),
      DnsRecord(ExampleCom \o Dot \o ExampleCom, TypeA),
      [type |-> TypeA],
      [name |-> ExampleCom] }

RootDomains == {ExampleCom, <<"E">> \o Tail(ExampleCom)}

Subdomains == {<<>>, At, ExampleCom, Dev, Upper(Dev), Www, Dev \o Hyphen \o Api}

RecordLists == {None} \cup {Some(l) : l \in SeqUpTo(ZoneRecords, MaxRecords)}

\* Environment names: those of ENV_CHOICES, the prod names in other cases,
\* custom names, names that only resemble the prod names, and the name of
\* the file "-config.toml".
EnvNames ==
    { Dev, Staging, Prod, Production, Upper(Prod), Upper(Production),
      <<"P">> \o Tail(Prod), <<"P">> \o Tail(Production),
      <<"q", "a">>, Upper(Staging), Prod \o <<" ">>, <<"p", "r", "e">> \o Prod,
      Prod \o Hyphen \o <<"e", "u">>, SubSeq(Production, 1, 9), <<>> }

PlanRoots == RootDomains \cup {<<"a", ".", "i", "o">>, Dev \o Dot \o ExampleCom}

---------------------------------------------------------------------------
(* Inputs of init *)

MaxEnvs == 2

ENV_CHOICES == <<Dev, Staging, Prod>>

\* The elements of ENV_CHOICES at the places of S, in the order of the list.
Ticked(S) ==
    [k \in 1..Cardinality(S) |->
        ENV_CHOICES[CHOOSE p \in S : Cardinality({q \in S : q < p}) = k - 1]]

\* What the checkbox prompt can give back: at most MaxEnvs of the choices.
EnvSelections ==
    {Ticked(S) : S \in {T \in SUBSET DOMAIN ENV_CHOICES : Cardinality(T) <= MaxEnvs}}

\* The option values of a run: --continent, --linode-region, --domain.
ContinentFlags == {<<>>, Blank \o Lower(Oceania) \o Blank, <<"M", "a", "r", "s">>}
RegionFlags    == {"", "us-east"}
DomainFlags    == {<<>>, ExampleCom}

\* The regions the user of the model picks, when they are among the choices.
PickedRegions == {"us-east", "br-gru", "au-mel"}

\* Bodies of GET /linode/types: a catalog init can price everywhere, and one
\* with a type that carries no price.
TypesResponses ==
    { [data |-> <<[id |-> "g6-nanode-1", class |-> "nanode", price |-> FullPrice],
                  [id |-> "g6-standard-2", class |-> "standard", price |-> FullPrice,
                   region_prices |-> <<[id |-> "br-gru", hourly |-> 2, monthly |-> 20]>>]>>],
      [data |-> <<[id |-> "g6-nanode-1", class |-> "nanode", price |-> FullPrice],
                  [id |-> "g6-nanode-unpriced", class |-> "nanode"]>>] }

\* Bodies of GET /images: one with an image init offers, one without.
ImagesResponses ==
    { [data |-> <<BaseImage>>],
      [data |-> <<Variant("private/12345", {}, [is_public |-> FALSE])>>] }

\* Responses of GET /zones?name=...
ZoneResponses ==
    { [status_code |-> 200, json |-> [success |-> TRUE, result |-> <<[id |-> "zone-1"]>>]],
      [status_code |-> 200, json |-> [success |-> TRUE, result |-> <<>>]],
      [status_code |-> 403, json |-> [success |-> FALSE]] }

\* Responses of GET /zones/{zone_id}/dns_records.  Without a zone id the
\* request names the zone "None", which is no zone.
RecordsResponses(zone_id) ==
    IF zone_id = None
    THEN { [status_code |-> 404, json |-> [success |-> FALSE]] }
    ELSE { [status_code |-> 200,
            json |-> [success |-> TRUE,
                      result |-> <<DnsRecord(Upper(Dev \o Dot \o ExampleCom), TypeCNAME),
                                   DnsRecord(ExampleCom, TypeA)>>]],
           [status_code |-> 200, json |-> [success |-> TRUE]],
           [status_code |-> 500, json |-> <<>>] }

\* The answers to "Domain to configure".
DomainAnswers == {ExampleCom, <<"E">> \o Tail(ExampleCom)}

---------------------------------------------------------------------------
(* Inputs of choose_instance *)

MaxListed == 3

\* Records as get_instances_for_region builds them: two of one monthly
\* price, a cheaper and a dearer one, and a record without price_monthly.
ListedInstances ==
    { [id |-> "g6-nanode-1", class |-> "nanode", price_hourly |-> 1, price_monthly |-> 10],
      [id |-> "g6-standard-1", class |-> "standard", price_hourly |-> 2, price_monthly |-> 10],
      [id |-> "g6-dedicated-2", class |-> "dedicated", price_hourly |-> 3, price_monthly |-> 20],
      [id |-> "g6-promo-1", class |-> "nanode", price_hourly |-> 1, price_monthly |-> 5],
      [id |-> "g6-unpriced", class |-> "standard"] }

---------------------------------------------------------------------------
(* Specifications *)

\* The parts of the state a specification does not use.
PriceIdle == item = <<>> /\ price = Pending /\ backup_price = Pending
InstIdle  == resp = <<>> /\ include_classes = <<>> /\ instances = Pending
ImgIdle   ==
    /\ images_resp = <<>> /\ include_vendors = <<>> /\ required_capabilities = <<>>
    /\ public_only = TRUE /\ exclude_eol = TRUE /\ require_status_available = TRUE
    /\ now = 0 /\ oses = Pending /\ oses_at = 0
    /\ oses_again = Pending /\ oses_again_at = 0
DnsIdle   ==
    /\ records = None /\ subdomain = <<>> /\ root_domain = <<>>
    /\ available = Pending /\ root_available = Pending
PlanIdle  == root = <<>> /\ env_name = <<>> /\ planned = Pending
ChooseIdle ==
    given = <<>> /\ listed = <<>> /\ choices = Pending /\ chosen = Pending
CliIdle ==
    /\ pc = "idle" /\ locals = <<>> /\ env_index = 0
    /\ prompts = <<>> /\ fetches = <<>> /\ checks = <<>> /\ files = <<>>
    /\ exit_code = None /\ raised = None /\ aborted = None

\* price = _pick_price(item, region_id)
PickPrice ==
    /\ price = Pending
    /\ price' = pick_price(item, region_id)
    /\ UNCHANGED <<cliVars, chooseVars, item, region_id, backup_price, instVars, imgVars, dnsVars, planVars>>

\* backup_price = _pick_backup_price(item, region_id)
PickBackupPrice ==
    /\ backup_price = Pending
    /\ backup_price' = pick_backup_price(item, region_id)
    /\ UNCHANGED <<cliVars, chooseVars, item, region_id, price, instVars, imgVars, dnsVars, planVars>>

InitPrice ==
    /\ item \in PriceItems
    /\ region_id \in RegionIds
    /\ price = Pending
    /\ backup_price = Pending
    /\ InstIdle /\ ImgIdle /\ DnsIdle /\ PlanIdle /\ CliIdle /\ ChooseIdle

NextPrice == PickPrice \/ PickBackupPrice

SpecPrice == InitPrice /\ [][NextPrice]_vars

\* instances = get_instances_for_region(resp, region_id, include_classes)
GetInstances ==
    /\ instances = Pending
    /\ instances' = get_instances_for_region(resp, region_id, include_classes)
    /\ UNCHANGED <<cliVars, chooseVars, resp, include_classes, priceVars, imgVars, dnsVars, planVars>>

InitInstances ==
    /\ resp \in Catalogs
    /\ region_id \in RegionIds
    /\ include_classes \in ClassLists
    /\ instances = Pending
    /\ PriceIdle /\ ImgIdle /\ DnsIdle /\ PlanIdle /\ CliIdle /\ ChooseIdle

NextInstances == GetInstances

SpecInstances == InitInstances /\ [][NextInstances]_vars

\* oses = get_operating_systems_for_region(images_resp, region_id, ...)
GetOperatingSystems ==
    /\ oses = Pending
    /\ oses' = get_operating_systems_for_region(images_resp, region_id,
                   include_vendors, public_only, exclude_eol,
                   require_status_available, required_capabilities, now)
    /\ oses_at' = now
    /\ UNCHANGED <<cliVars, chooseVars, region_id, item, price, backup_price, instVars, imgArgs,
                   dnsVars, planVars,
                   now, oses_again, oses_again_at>>

\* The same call on the same arguments, once more.
GetOperatingSystemsAgain ==
    /\ oses # Pending
    /\ oses_again = Pending
    /\ oses_again' = get_operating_systems_for_region(images_resp, region_id,
                   include_vendors, public_only, exclude_eol,
                   require_status_available, required_capabilities, now)
    /\ oses_again_at' = now
    /\ UNCHANGED <<cliVars, chooseVars, region_id, item, price, backup_price, instVars, imgArgs,
                   dnsVars, planVars,
                   now, oses, oses_at>>

\* Time passes between the two calls: datetime.now(timezone.utc) grows.  The
\* first call is made at instant 0, which the eol instants are relative to.
Tick ==
    /\ now < MaxNow
    /\ oses # Pending
    /\ oses_again = Pending
    /\ now' = now + 1
    /\ UNCHANGED <<cliVars, chooseVars, region_id, item, price, backup_price, instVars, imgArgs,
                   dnsVars, planVars,
                   oses, oses_at, oses_again, oses_again_at>>

InitImages ==
    /\ images_resp \in ImagePayloads
    /\ \E c \in ImageCalls :
        /\ region_id = c.region_id
        /\ include_vendors = c.include_vendors
        /\ public_only = c.public_only
        /\ exclude_eol = c.exclude_eol
        /\ require_status_available = c.require_status_available
        /\ required_capabilities = c.required_capabilities
    /\ now = 0 /\ oses = Pending /\ oses_at = 0
    /\ oses_again = Pending /\ oses_again_at = 0
    /\ PriceIdle /\ InstIdle /\ DnsIdle /\ PlanIdle /\ CliIdle /\ ChooseIdle

NextImages == GetOperatingSystems \/ GetOperatingSystemsAgain \/ Tick

SpecImages == InitImages /\ [][NextImages]_vars

\* available = subdomain_is_available(records, subdomain, root_domain)
SubdomainIsAvailable ==
    /\ available = Pending
    /\ available' = subdomain_is_available(records, subdomain, root_domain)
    /\ UNCHANGED <<cliVars, chooseVars, records, subdomain, root_domain, root_available,
                   priceVars, instVars, imgVars, planVars>>

\* root_available = root_domain_is_availabile(records, root_domain)
RootDomainIsAvailable ==
    /\ root_available = Pending
    /\ root_available' = root_domain_is_availabile(records, root_domain)
    /\ UNCHANGED <<cliVars, chooseVars, records, subdomain, root_domain, available,
                   priceVars, instVars, imgVars, planVars>>

InitDns ==
    /\ records \in RecordLists
    /\ subdomain \in Subdomains
    /\ root_domain \in RootDomains
    /\ available = Pending /\ root_available = Pending
    /\ PriceIdle /\ region_id = "" /\ InstIdle /\ ImgIdle /\ PlanIdle /\ CliIdle /\ ChooseIdle

NextDns == SubdomainIsAvailable \/ RootDomainIsAvailable

SpecDns == InitDns /\ [][NextDns]_vars

\* planned = _planned_dns_records(root, env_name)
PlannedDnsRecords ==
    /\ planned = Pending
    /\ planned' = planned_dns_records(root, env_name)
    /\ UNCHANGED <<cliVars, chooseVars, root, env_name, priceVars, instVars, imgVars, dnsVars>>

InitPlan ==
    /\ root \in PlanRoots
    /\ env_name \in EnvNames
    /\ planned = Pending
    /\ PriceIdle /\ region_id = "" /\ InstIdle /\ ImgIdle /\ DnsIdle /\ CliIdle /\ ChooseIdle

NextPlan == PlannedDnsRecords

SpecPlan == InitPlan /\ [][NextPlan]_vars

\* choose_instance(given, ...): the prompt shows the choices, the user
\* picks one of them or aborts the prompt.
ChooseFromList ==
    /\ choices = Pending
    /\ choices' = Returned(InstanceChoices(listed))
    /\ listed' = AfterSorted(listed)
    /\ \E answer \in {None} \cup {Some(inst.id) : inst \in {listed[k] : k \in DOMAIN listed}} :
        chosen' = Returned(choose_instance(listed, answer))
    /\ UNCHANGED <<given, priceVars, instVars, imgVars, dnsVars, planVars, cliVars>>

InitChoose ==
    /\ given \in SeqUpTo(ListedInstances, MaxListed)
    /\ listed = given
    /\ choices = Pending /\ chosen = Pending
    /\ PriceIdle /\ region_id = "" /\ InstIdle /\ ImgIdle /\ DnsIdle /\ PlanIdle
    /\ CliIdle

NextChoose == ChooseFromList

SpecChoose == InitChoose /\ [][NextChoose]_vars

---------------------------------------------------------------------------
(* cli.py: init, from the region block on (line 130).  Before it init reads *)
(* the project name and the API keys through env_file, a module that is    *)
(* not among the sources modelled here.                                    *)

\* locals holds the local variables of init that are bound; a name that is
\* not in its domain is unbound, and reading it raises UnboundLocalError.
Bound(name) == name \in DOMAIN locals

Bind(l, name, v) == (name :> v) @@ l

\* d[k] = v on a dict
SetItem(d, k, v) == (k :> v) @@ d

\* The log of prompts shown, each with the environment it is about.
Ask(name, env) == Append(prompts, [prompt |-> name, env |-> env])

\* The user aborts the prompt that is being shown: how many prompts and
\* requests the run has made by then.  Only the first abort is kept.
AbortHere(shown) ==
    IF aborted = None /\ shown
    THEN Some([prompts |-> Len(prompts) + 1, fetches |-> Len(fetches)])
    ELSE aborted

\* raise typer.Exit(code), or the normal end of init (code 0)
Exit(code) ==
    /\ pc' = "exited"
    /\ exit_code' = Some(code)
    /\ UNCHANGED raised

\* An exception nothing catches: a traceback and exit code 1.
Crash(exc) ==
    /\ pc' = "exited"
    /\ exit_code' = Some(1)
    /\ raised' = Some(exc)

Goto(label) ==
    /\ pc' = label
    /\ UNCHANGED <<exit_code, raised>>

otherVars == <<priceVars, instVars, imgVars, dnsVars, planVars, chooseVars>>

\* alias.get(norm, continent) with norm = continent.strip().lower()
NormalizedContinent(c) ==
    LET norm == Lower(Strip(c))
        hits == {k \in DOMAIN CONTINENT_CHOICES :
                    /\ CONTINENT_CHOICES[k] # ShowAllRegions
                    /\ Lower(CONTINENT_CHOICES[k]) = norm}
    IN  IF hits = {} THEN c ELSE CONTINENT_CHOICES[CHOOSE k \in hits : TRUE]

RECURSIVE Flatten(_, _)
Flatten(keys, k) ==
    IF k > Len(keys) THEN <<>>
    ELSE CONTINENT_TO_REGIONS[keys[k]] \o Flatten(keys, k + 1)

\* region_choices
RegionChoices(c) ==
    IF c = ShowAllRegions THEN Flatten(ContinentKeys, 1)
    ELSE IF NormalizedContinent(c) \in DOMAIN CONTINENT_TO_REGIONS
         THEN CONTINENT_TO_REGIONS[NormalizedContinent(c)]
         ELSE <<>>

Elements(seq) == {seq[k] : k \in DOMAIN seq}

\* if not linode_region: / if not continent:
EnterRegionBlock ==
    /\ pc = "start"
    /\ IF locals["linode_region"] # "" THEN Goto("require_region")
       ELSE IF locals["continent"] = <<>> THEN Goto("prompt_continent")
       ELSE Goto("prompt_region")
    /\ UNCHANGED <<locals, env_index, prompts, fetches, checks, files, aborted,
                   otherVars>>

\* The continent prompt; no continent ends the run.
PromptContinent ==
    /\ pc = "prompt_continent"
    /\ \E answer \in {None} \cup {Some(c) : c \in Elements(CONTINENT_CHOICES)} :
        LET continent == IF answer = None THEN <<>> ELSE answer[1]
        IN  /\ prompts' = Ask("continent", <<>>)
            /\ locals' = Bind(locals, "continent", continent)
            /\ aborted' = AbortHere(answer = None)
            /\ IF continent = <<>> THEN Exit(1) ELSE Goto("prompt_region")
    /\ UNCHANGED <<env_index, fetches, checks, files, otherVars>>

\* The region prompt; an aborted prompt leaves linode_region = "".
PromptRegion ==
    /\ pc = "prompt_region"
    /\ LET continent == locals["continent"]
           region_choices == RegionChoices(continent)
           kept == IF continent = ShowAllRegions THEN continent
                   ELSE NormalizedContinent(continent)
       IN  \E answer \in {None} \cup
                {Some(r) : r \in Elements(region_choices) \cap PickedRegions} :
            /\ prompts' = Ask("linode_region", <<>>)
            /\ locals' = Bind(Bind(locals, "continent", kept), "linode_region",
                              IF answer = None THEN "" ELSE answer[1])
            /\ aborted' = AbortHere(answer = None)
    /\ Goto("request_types")
    /\ UNCHANGED <<env_index, fetches, checks, files, otherVars>>

\* response = requests.request("GET", ".../linode/types", ...)
RequestTypes ==
    /\ pc = "request_types"
    /\ \E r \in TypesResponses : locals' = Bind(locals, "response", r)
    /\ fetches' = Append(fetches, "linode/types")
    /\ Goto("select_environments")
    /\ UNCHANGED <<env_index, prompts, checks, files, aborted, otherVars>>

\* envs = select_environments(); no environment ends the run.
SelectEnvironments ==
    /\ pc = "select_environments"
    /\ \E envs \in EnvSelections :
        /\ locals' = IF envs = <<>> THEN locals ELSE Bind(locals, "envs", envs)
        /\ aborted' = AbortHere(envs = <<>>)
        /\ IF envs = <<>> THEN Exit(1) ELSE Goto("get_instances")
    /\ prompts' = Ask("envs", <<>>)
    /\ UNCHANGED <<env_index, fetches, checks, files, otherVars>>

\* instances = linode.get_instances_for_region(response.json(), ...)
FilterInstances ==
    /\ pc = "get_instances"
    /\ LET result == get_instances_for_region(locals["response"],
                         locals["linode_region"],
                         <<"nanode", "standard", "dedicated", "premium">>)
       IN  IF IsRaised(result)
           THEN Crash(result.exc) /\ UNCHANGED locals
           ELSE Goto("request_images")
                /\ locals' = Bind(locals, "instances", result.value)
    /\ UNCHANGED <<env_index, prompts, fetches, checks, files, aborted, otherVars>>

\* imgs_resp = requests.get(".../images", ...).json()
RequestImages ==
    /\ pc = "request_images"
    /\ \E r \in ImagesResponses : locals' = Bind(locals, "imgs_resp", r)
    /\ fetches' = Append(fetches, "images")
    /\ Goto("get_operating_systems")
    /\ UNCHANGED <<env_index, prompts, checks, files, aborted, otherVars>>

\* oses = linode.get_operating_systems_for_region(...), the six empty dicts,
\* and the first turn of `for env in envs`.
FilterOperatingSystems ==
    /\ pc = "get_operating_systems"
    /\ LET result == get_operating_systems_for_region(locals["imgs_resp"],
                         locals["linode_region"], InitVendors, TRUE, TRUE, TRUE,
                         <<>>, now)
       IN  locals' = [env_instance_types |-> <<>>, env_os_choices |-> <<>>,
                      env_backups_enabled |-> <<>>, env_instance_tags |-> <<>>,
                      env_stripe_api_keys |-> <<>>, env_sendgrid_api_keys |-> <<>>,
                      oses |-> result.value] @@ locals
    /\ env_index' = 1
    /\ Goto("choose_instance")
    /\ UNCHANGED <<prompts, fetches, checks, files, aborted, otherVars>>

\* The environment of the current turn of a loop over envs.
Env == locals["envs"][env_index]

IsLastEnv == env_index = Len(locals["envs"])

\* selected = linode.choose_instance(instances, ...)
ChooseInstance ==
    /\ pc = "choose_instance"
    /\ \E answer \in {None} \cup {Some(inst.id) : inst \in Elements(locals["instances"])} :
        /\ locals' = Bind(locals, "selected",
                          choose_instance(locals["instances"], answer))
        /\ aborted' = AbortHere(answer = None)
    /\ prompts' = Ask("instance", Env)
    /\ Goto("choose_os")
    /\ UNCHANGED <<env_index, fetches, checks, files, otherVars>>

\* selected_os = linode.choose_os(oses, ...), then lines 208-213: the run
\* ends when no instance was selected; selected_os["id"] raises TypeError
\* when no image was.
ChooseOs ==
    /\ pc = "choose_os"
    /\ LET images == locals["oses"]
           selected == locals["selected"]
       IN  /\ prompts' = IF OsIsPrompted(images) THEN Ask("os", Env) ELSE prompts
           /\ \E answer \in {None} \cup {Some(img.id) : img \in Elements(images)} :
                LET selected_os == choose_os(images, answer)
                    types == SetItem(locals["env_instance_types"], Env, selected[1].id)
                IN  /\ aborted' = AbortHere(OsIsPrompted(images) /\ answer = None)
                    /\ IF selected = None
                       THEN /\ Exit(1)
                            /\ locals' = Bind(locals, "selected_os", selected_os)
                       ELSE IF selected_os = None
                       THEN /\ Crash("TypeError")
                            /\ locals' = Bind(Bind(locals, "selected_os", selected_os),
                                              "env_instance_types", types)
                       ELSE /\ Goto("env_details")
                            /\ locals' =
                                 [selected_os |-> selected_os,
                                  env_instance_types |-> types,
                                  env_os_choices |->
                                      SetItem(locals["env_os_choices"], Env,
                                              selected_os[1].id)] @@ locals
    /\ UNCHANGED <<env_index, fetches, checks, files, otherVars>>

\* The four typer prompts of the turn, and the next turn of the loop.
PromptEnvDetails ==
    /\ pc = "env_details"
    /\ \E backups \in BOOLEAN :
        locals' = [env_backups_enabled |->
                       SetItem(locals["env_backups_enabled"], Env, backups),
                   env_instance_tags |->
                       SetItem(locals["env_instance_tags"], Env, <<>>),
                   env_stripe_api_keys |->
                       SetItem(locals["env_stripe_api_keys"], Env, <<>>),
                   env_sendgrid_api_keys |->
                       SetItem(locals["env_sendgrid_api_keys"], Env, <<>>)] @@ locals
    /\ prompts' = prompts \o <<[prompt |-> "backups", env |-> Env],
                               [prompt |-> "tags", env |-> Env],
                               [prompt |-> "stripe", env |-> Env],
                               [prompt |-> "sendgrid", env |-> Env]>>
    /\ IF IsLastEnv
       THEN Goto("require_region") /\ UNCHANGED env_index
       ELSE Goto("choose_instance") /\ env_index' = env_index + 1
    /\ UNCHANGED <<fetches, checks, files, aborted, otherVars>>

\* if not linode_region: raise typer.Exit(1)
RequireRegion ==
    /\ pc = "require_region"
    /\ IF locals["linode_region"] = "" THEN Exit(1) ELSE Goto("domain")
    /\ UNCHANGED <<locals, env_index, prompts, fetches, checks, files, aborted,
                   otherVars>>

\* --domain was given: no prompt, no request, no availability check.
DomainGiven ==
    /\ pc = "domain"
    /\ locals["domain_to_configure"] # <<>>
    /\ Goto("make_config_dir")
    /\ UNCHANGED <<locals, env_index, prompts, fetches, checks, files, aborted,
                   otherVars>>

\* domain_to_configure = typer.prompt("Domain to configure ...")
PromptDomain ==
    /\ pc = "domain"
    /\ locals["domain_to_configure"] = <<>>
    /\ \E answer \in DomainAnswers :
        locals' = Bind(locals, "domain_to_configure", answer)
    /\ prompts' = Ask("domain", <<>>)
    /\ Goto("get_zone_id")
    /\ UNCHANGED <<env_index, fetches, checks, files, aborted, otherVars>>

\* domain_zone_id = cloudflare.get_cloudflare_zone_id(...)
GetCloudflareZoneId ==
    /\ pc = "get_zone_id"
    /\ \E response \in ZoneResponses :
        locals' = Bind(locals, "domain_zone_id", get_cloudflare_zone_id(response))
    /\ fetches' = Append(fetches, "cloudflare/zones")
    /\ Goto("get_dns_records")
    /\ UNCHANGED <<env_index, prompts, checks, files, aborted, otherVars>>

\* dns_records = cloudflare.get_cloudflare_dns_records(...), and the head of
\* `for env in envs`, which reads envs.
GetCloudflareDnsRecords ==
    /\ pc = "get_dns_records"
    /\ \E response \in RecordsResponses(locals["domain_zone_id"]) :
        locals' = Bind(locals, "dns_records", get_cloudflare_dns_records(response))
    /\ fetches' = Append(fetches, "cloudflare/dns_records")
    /\ IF Bound("envs")
       THEN Goto("check_dns") /\ env_index' = 1
       ELSE Crash("UnboundLocalError") /\ UNCHANGED env_index
    /\ UNCHANGED <<prompts, checks, files, aborted, otherVars>>

\* A loop that asks about the front-end names alone.
AskedSubdomains_FrontEndOnly(env) ==
    IF env = Prod THEN <<<<>>, Www>> ELSE <<env>>

\* The subdomains one turn of the loop asks about: the root, www and api
\* for "prod", {env} and {env}-api for any other environment.
AskedSubdomains(env) ==
    IF env = Prod THEN <<<<>>, Www, Api>>
    ELSE <<env, env \o Hyphen \o Api>>

\* One turn of the loop of lines 231-257.  The calls are made in order, and
\* the first that raises ends the run.
CheckDns ==
    /\ pc = "check_dns"
    /\ LET asked == AskedSubdomains(Env)
           root_name == locals["domain_to_configure"]
           call(k) == subdomain_is_available(locals["dns_records"], asked[k], root_name)
           failing == {k \in DOMAIN asked : IsRaised(call(k))}
           last == IF failing = {} THEN Len(asked)
                   ELSE CHOOSE k \in failing : \A f \in failing : k <= f
       IN  /\ checks' = checks \o
                [k \in 1..last |-> [env |-> Env, subdomain |-> asked[k],
                                    name |-> TargetName(asked[k], root_name),
                                    outcome |-> call(k)]]
           /\ IF failing # {} THEN Crash(call(last).exc) /\ UNCHANGED env_index
              ELSE IF IsLastEnv THEN Goto("make_config_dir") /\ UNCHANGED env_index
              ELSE Goto("check_dns") /\ env_index' = env_index + 1
    /\ UNCHANGED <<locals, prompts, fetches, files, aborted, otherVars>>

\* out_dir.mkdir(...), and the head of `for env_name in envs`, which reads
\* envs.
MakeConfigDir ==
    /\ pc = "make_config_dir"
    /\ IF Bound("envs")
       THEN Goto("write_config") /\ env_index' = 1
       ELSE Crash("UnboundLocalError") /\ UNCHANGED env_index
    /\ UNCHANGED <<locals, prompts, fetches, checks, files, aborted, otherVars>>

ConfigSuffix == <<"-", "c", "o", "n", "f", "i", "g", ".", "t", "o", "m", "l">>
EnvSuffix    == <<".", "e", "n", "v">>

\* d.get(k, "")
GetOrEmpty(d, k) == IF Has(d, k) THEN d[k] ELSE <<>>

\* The write of the configuration file as a transaction over the run: a
\* refused write takes the files written before it away.
WriteConfigFile_Transactional ==
    /\ pc = "write_config"
    /\ \E written \in BOOLEAN :
        IF written
        THEN /\ files' = Append(files,
                    [path |-> Env \o ConfigSuffix,
                     region |-> locals["linode_region"],
                     backups_enabled |-> locals["env_backups_enabled"][Env],
                     instance_type |-> GetOrEmpty(locals["env_instance_types"], Env),
                     image |-> GetOrEmpty(locals["env_os_choices"], Env),
                     root |-> locals["domain_to_configure"]])
             /\ Goto("write_env")
        ELSE Crash("OSError") /\ files' = <<>>
    /\ UNCHANGED <<locals, env_index, prompts, fetches, checks, aborted, otherVars>>

\* config_file.write_text(dumps(config_data)): the file is written, or the
\* file system refuses and OSError ends the run.
WriteConfigFile ==
    /\ pc = "write_config"
    /\ \E written \in BOOLEAN :
        IF written
        THEN /\ files' = Append(files,
                    [path |-> Env \o ConfigSuffix,
                     region |-> locals["linode_region"],
                     backups_enabled |-> locals["env_backups_enabled"][Env],
                     instance_type |-> GetOrEmpty(locals["env_instance_types"], Env),
                     image |-> GetOrEmpty(locals["env_os_choices"], Env),
                     root |-> locals["domain_to_configure"]])
             /\ Goto("write_env")
        ELSE Crash("OSError") /\ UNCHANGED files
    /\ UNCHANGED <<locals, env_index, prompts, fetches, checks, aborted, otherVars>>

\* project_env_file.write_text(...), then the next turn, or the end of init.
WriteEnvFile ==
    /\ pc = "write_env"
    /\ \E written \in BOOLEAN :
        IF written
        THEN /\ files' = Append(files, [path |-> Env \o EnvSuffix])
             /\ IF IsLastEnv THEN Exit(0) /\ UNCHANGED env_index
                ELSE Goto("write_config") /\ env_index' = env_index + 1
        ELSE Crash("OSError") /\ UNCHANGED <<files, env_index>>
    /\ UNCHANGED <<locals, prompts, fetches, checks, aborted, otherVars>>

InitCli ==
    /\ pc = "start"
    /\ \E continent \in ContinentFlags, linode_region \in RegionFlags,
          domain_to_configure \in DomainFlags :
        locals = [continent |-> continent, linode_region |-> linode_region,
                  domain_to_configure |-> domain_to_configure]
    /\ env_index = 0
    /\ prompts = <<>> /\ fetches = <<>> /\ checks = <<>> /\ files = <<>>
    /\ exit_code = None /\ raised = None /\ aborted = None
    /\ PriceIdle /\ region_id = "" /\ InstIdle /\ ImgIdle /\ DnsIdle /\ PlanIdle
    /\ ChooseIdle

NextCli ==
    \/ EnterRegionBlock \/ PromptContinent \/ PromptRegion \/ RequestTypes
    \/ SelectEnvironments \/ FilterInstances \/ RequestImages
    \/ FilterOperatingSystems \/ ChooseInstance \/ ChooseOs \/ PromptEnvDetails
    \/ RequireRegion \/ DomainGiven \/ PromptDomain \/ GetCloudflareZoneId
    \/ GetCloudflareDnsRecords \/ CheckDns \/ MakeConfigDir \/ WriteConfigFile
    \/ WriteEnvFile

SpecInit == InitCli /\ [][NextCli]_vars

---------------------------------------------------------------------------
(* Claims about the price resolver and the instance catalog filter *)

PriceFields == {"hourly", "monthly"}

\* The entries of the item's region_prices whose id is the region id.
Matching == {i \in Indices(ListOrEmpty(item, "region_prices")) :
                LET rp == item.region_prices[i]
                IN  "id" \in DOMAIN rp /\ rp.id = region_id}

\* The earliest of them in the list.
Override == item.region_prices[CHOOSE i \in Matching : \A j \in Matching : i <= j]

BaseOf(itm) == IF "price" \in DOMAIN itm THEN itm.price ELSE <<>>

\* C1: _pick_price returns the hourly/monthly values of the region_prices
\* entry whose id is the region id when there is one (the first such entry,
\* for each field it carries), and the item's base price values unchanged
\* when no entry's id is the region id: an unknown region id, an absent or an
\* empty region_prices list.
C1_RegionOverrideOrBase ==
    price # Pending =>
        IF Matching = {}
        THEN /\ PriceFields \subseteq DOMAIN BaseOf(item) =>
                    price = Returned([hourly |-> item.price.hourly,
                                      monthly |-> item.price.monthly])
             /\ IsReturned(price) => price.value = item.price
        ELSE /\ PriceFields \subseteq DOMAIN Override =>
                    price = Returned([hourly |-> Override.hourly,
                                      monthly |-> Override.monthly])
             /\ IsReturned(price) =>
                    \A f \in PriceFields \cap DOMAIN Override :
                        price.value[f] = Override[f]

\* An override applied over a different base price, and a region that does
\* not match the item's overrides: both cases of C1 need a state; this is the
\* first, with a second entry of the same id behind it.
C1_Witness ==
    /\ IsReturned(price)
    /\ Cardinality(Matching) = 2
    /\ PriceFields \subseteq DOMAIN Override
    /\ PriceFields \subseteq DOMAIN BaseOf(item)
    /\ price.value # item.price

\* The ids of a list of dicts, in order.
Ids(s) == [i \in DOMAIN s |-> s[i].id]

\* The item's class is in include_classes, or include_classes is empty/absent.
ClassKept(itm) ==
    \/ include_classes = <<>>
    \/ /\ "class" \in DOMAIN itm
       /\ \E i \in DOMAIN include_classes : include_classes[i] = itm.class

\* Both fields of the item's price come from its base price or from its
\* override for the region.
HasResolvablePricing(itm) == IsReturned(pick_price(itm, region_id))

KeptAndPriced(itm) == ClassKept(itm) /\ HasResolvablePricing(itm)

CatalogData == IF "data" \in DOMAIN resp THEN resp.data ELSE <<>>

\* C5: get_instances_for_region excludes every item whose class is not in a
\* non-empty include_classes and includes, in catalog order and exactly once
\* each, all other items that have resolvable pricing; an empty or absent
\* include_classes excludes no item by class.
C5_ClassFilterKeepsPriced ==
    instances # Pending =>
        /\ IsReturned(instances)
        /\ Ids(instances.value) = Ids(SelectSeq(CatalogData, KeptAndPriced))

\* What the code does instead: it returns that list only when every item of
\* a kept class can be priced (backups add-on included), and raises
\* otherwise.
C5_WhenEveryKeptItemIsPriced ==
    instances # Pending =>
        IF \A i \in DOMAIN CatalogData :
                ClassKept(CatalogData[i]) =>
                    /\ HasResolvablePricing(CatalogData[i])
                    /\ IsReturned(pick_backup_price(CatalogData[i], region_id))
        THEN /\ IsReturned(instances)
             /\ Ids(instances.value) = Ids(SelectSeq(CatalogData, ClassKept))
        ELSE instances = Raised("TypeError")

---------------------------------------------------------------------------
(* Claims about the image catalog filter *)

ImageData == IF "data" \in DOMAIN images_resp THEN images_resp.data ELSE <<>>

StrOrEmpty(d, key) == IF key \in DOMAIN d THEN d[key] ELSE <<>>

\* The instant the image's eol text reads, as a set: empty when the eol is
\* absent, empty or malformed.
EolInstant(img) ==
    IF "eol" \in DOMAIN img /\ img.eol.form = "iso" THEN {img.eol.wall} ELSE {}

IsDeprecated(img) == "deprecated" \in DOMAIN img /\ img.deprecated

\* The six predicates of the filter, for a call made at instant t.
PassesPublic(img) == public_only => ("is_public" \in DOMAIN img /\ img.is_public)

PassesVendor(img) ==
    \/ include_vendors = <<>>
    \/ \E i \in DOMAIN include_vendors :
        /\ Strip(include_vendors[i]) # <<>>
        /\ Lower(Strip(include_vendors[i])) = Lower(Strip(StrOrEmpty(img, "vendor")))

PassesStatus(img) ==
    require_status_available => ("status" \in DOMAIN img /\ img.status = "available")

PassesCapabilities(img) ==
    \A i \in DOMAIN required_capabilities :
        Strip(required_capabilities[i]) # <<>> =>
            \E j \in DOMAIN StrOrEmpty(img, "capabilities") :
                img.capabilities[j] = Strip(required_capabilities[i])

PassesRegion(img) ==
    \/ "regions" \notin DOMAIN img
    \/ img.regions = <<>>
    \/ \E i \in DOMAIN img.regions : img.regions[i] = region_id

PassesEol(img, t) ==
    exclude_eol => ~IsDeprecated(img) /\ \A e \in EolInstant(img) : e > t

PassesFirstFive(img) ==
    /\ PassesPublic(img) /\ PassesVendor(img) /\ PassesStatus(img)
    /\ PassesCapabilities(img) /\ PassesRegion(img)

PassesAll(img, t) == PassesFirstFive(img) /\ PassesEol(img, t)

\* How many elements of the list of dicts s carry the id.
CountId(s, id) == Cardinality({i \in DOMAIN s : s[i].id = id})

\* The images of the payload that pass all six predicates at instant t, in
\* payload order.
Passing(t) ==
    LET Test(img) == PassesAll(img, t)
    IN  SelectSeq(ImageData, Test)

\* The result holds one record for each image of the payload that passes all
\* six predicates, and none for any other.
OneRecordPerPassingImage(result, t) ==
    LET passing == Passing(t)
    IN  /\ IsReturned(result)
        /\ Len(result.value) = Len(passing)
        /\ \A id \in {ImageData[i].id : i \in DOMAIN ImageData} :
                CountId(result.value, id) = CountId(passing, id)
        /\ \A k \in DOMAIN result.value :
            \E i \in DOMAIN passing :
                LET r == result.value[k]
                    img == passing[i]
                IN  /\ r.id = img.id
                    /\ StrOrEmpty(r, "vendor") = Strip(StrOrEmpty(img, "vendor"))
                    /\ StrOrEmpty(r, "label") = StrOrEmpty(img, "label")
                    /\ StrOrEmpty(r, "regions") = StrOrEmpty(img, "regions")
                    /\ r.deprecated = IsDeprecated(img)

EolPassedIsRight(result, t) ==
    /\ \A k \in DOMAIN result.value :
        LET r == result.value[k]
        IN  r.eol_passed = (\E e \in EolInstant(r) : e <= t)
    /\ \A i \in DOMAIN ImageData :
        LET img == ImageData[i]
        IN  PassesFirstFive(img) /\ ~IsDeprecated(img) =>
                IF EolInstant(img) = {}
                THEN CountId(result.value, img.id) > 0
                ELSE exclude_eol =>
                        (CountId(result.value, img.id) = 0
                            <=> \E e \in EolInstant(img) : e <= t)

FoldedVendor(x) == Lower(StrOrEmpty(x, "vendor"))
FoldedLabel(x)  == Lower(StrOrEmpty(x, "label"))

SameKey(x, y) == FoldedVendor(x) = FoldedVendor(y) /\ FoldedLabel(x) = FoldedLabel(y)

KeyAtMost(x, y) ==
    \/ StrLess(FoldedVendor(x), FoldedVendor(y))
    \/ FoldedVendor(x) = FoldedVendor(y)
        /\ (FoldedLabel(x) = FoldedLabel(y) \/ StrLess(FoldedLabel(x), FoldedLabel(y)))

\* The result is in ascending key order, and records of one key are in the
\* order their images have in the payload.
SortedAndStable(result, t) ==
    LET out == result.value
        passing == Passing(t)
    IN  /\ \A i, j \in DOMAIN out : i < j => KeyAtMost(out[i], out[j])
        /\ \A k \in DOMAIN out :
            LET InKey(x) == SameKey([vendor |-> Strip(StrOrEmpty(x, "vendor")),
                                     label |-> StrOrEmpty(x, "label")], out[k])
            IN  Ids(SelectSeq(out, InKey)) = Ids(SelectSeq(passing, InKey))

\* No image's eol instant lies after the first call and at or before the
\* second.
NoEolBetweenCalls ==
    \A i \in DOMAIN ImageData :
        \A e \in EolInstant(ImageData[i]) : ~(oses_at < e /\ e <= oses_again_at)

\* C3 as stated: the result is sorted ascending by (case-folded vendor,
\* case-folded label) with ties in input order, and two calls on identical
\* input return the same records in the same order.
C3_SortedAndRepeatable ==
    /\ oses # Pending => SortedAndStable(oses, oses_at)
    /\ oses_again # Pending => oses_again = oses

\* C3 as amended: the result is sorted ascending by (case-folded vendor,
\* case-folded label) with ties in input order, and two calls on identical
\* input return the same records in the same order when no image's eol
\* instant lies after the first call and at or before the second (the result
\* depends on the current instant as well as on the arguments).
C3_SortedAndRepeatableAtOneInstant ==
    /\ oses # Pending => SortedAndStable(oses, oses_at)
    /\ oses_again # Pending =>
        /\ SortedAndStable(oses_again, oses_again_at)
        /\ NoEolBetweenCalls => oses_again = oses

\* A second call at a later instant that repeats a first result in which two
\* records of one key, of different images, stand in payload order.
C3_Witness ==
    /\ IsReturned(oses_again)
    /\ oses_again_at > oses_at
    /\ NoEolBetweenCalls
    /\ Len(oses.value) = 2
    /\ \E i, j \in DOMAIN oses.value :
        i < j /\ SameKey(oses.value[i], oses.value[j])
              /\ oses.value[i].id # oses.value[j].id

---------------------------------------------------------------------------
(* Claims about the DNS availability check and the DNS plan *)

RecordsList == IF records = None THEN <<>> ELSE records[1]

\* The record's type is A or CNAME in any case, and its name, case-folded,
\* is the target.
Occupies(record, target) ==
    /\ "type" \in DOMAIN record
    /\ Lower(record.type) \in {<<"a">>, <<"c", "n", "a", "m", "e">>}
    /\ "name" \in DOMAIN record
    /\ Lower(record.name) = target

\* The target of the claim: the case-folded root_domain when subdomain is
\* empty, "@" or root_domain, the case-folded "{subdomain}.{root_domain}"
\* otherwise.
ClaimedTarget ==
    IF subdomain \in {<<>>, <<"@">>, root_domain}
    THEN Lower(root_domain)
    ELSE Lower(subdomain) \o <<".">> \o Lower(root_domain)

\* C6: subdomain_is_available returns false iff some record has type A or
\* CNAME (in any case) and a name that, case-folded, is the target; records
\* of another type never make a name unavailable; root_domain_is_availabile
\* is the same predicate with an empty subdomain.
C6_UnavailableIffARecordOccupiesTheTarget ==
    records # None =>
        /\ available # Pending =>
            available = Returned(~\E i \in DOMAIN RecordsList :
                                    Occupies(RecordsList[i], ClaimedTarget))
        /\ root_available # Pending =>
            root_available = Returned(~\E i \in DOMAIN RecordsList :
                                    Occupies(RecordsList[i], Lower(root_domain)))

\* The spec's example: "dev" is not available because of a CNAME record
\* written in another case, behind a record that does not count.
C6_Witness ==
    /\ records # None
    /\ available = Returned(FALSE)
    /\ root_available = Returned(TRUE)
    /\ subdomain = <<"d", "e", "v">>
    /\ Len(RecordsList) = 2
    /\ Has(RecordsList[1], "type") /\ RecordsList[1].type = <<"M", "X">>
    /\ Occupies(RecordsList[2], ClaimedTarget)
    /\ RecordsList[2].type = TypeCNAME
    /\ RecordsList[2].name # ClaimedTarget

PlannedSet == {planned.value[i] : i \in DOMAIN planned.value}

IsProdName(env) == Lower(env) \in {<<"p", "r", "o", "d">>,
                                   <<"p", "r", "o", "d", "u", "c", "t", "i", "o", "n">>}

\* C7: for an environment name that case-folds to "prod" or "production",
\* _planned_dns_records returns exactly two records: an A record named
\* api.{root} and a CNAME record named www.{root} whose content is {root},
\* both proxied with automatic TTL.
C7_ProdPlansApiAndWww ==
    planned # Pending /\ IsProdName(env_name) =>
        /\ IsReturned(planned)
        /\ Len(planned.value) = 2
        /\ PlannedSet =
            { [Name |-> <<"a", "p", "i", ".">> \o root, Type |-> "A",
               Content |-> TBD, Proxy |-> "Proxied", TTL |-> "Auto"],
              [Name |-> <<"w", "w", "w", ".">> \o root, Type |-> "CNAME",
               Content |-> root, Proxy |-> "Proxied", TTL |-> "Auto"] }

C7_Witness ==
    /\ IsReturned(planned)
    /\ env_name = <<"P", "R", "O", "D", "U", "C", "T", "I", "O", "N">>
    /\ Len(planned.value) = 2

\* The single record of a non-prod plan.
OneApiRecord ==
    /\ IsReturned(planned)
    /\ planned.value =
        << [Name |-> env_name \o <<"-", "a", "p", "i", ".">> \o root, Type |-> "A",
            Content |-> TBD, Proxy |-> "Proxied", TTL |-> "Auto"] >>

\* C8 as stated: for every environment name that does not case-fold to
\* "prod" or "production", _planned_dns_records returns exactly one record:
\* an A record named {environment_name}-api.{root}, proxied with automatic
\* TTL, and no www or api.{root} record.
C8_EveryOtherNamePlansOneRecord ==
    planned # Pending /\ ~IsProdName(env_name) => OneApiRecord

\* C8 as amended: the same for every non-empty environment name that does
\* not case-fold to "prod" or "production"; the empty name gets the two
\* records of prod.
C8_EveryOtherNonEmptyNamePlansOneRecord ==
    planned # Pending /\ ~IsProdName(env_name) =>
        IF env_name # <<>>
        THEN OneApiRecord
        ELSE Len(planned.value) = 2

\* A custom name that only resembles a prod name.
C8_Witness ==
    /\ IsReturned(planned)
    /\ env_name = <<"p", "r", "o", "d", "-", "e", "u">>
    /\ Len(planned.value) = 1

---------------------------------------------------------------------------
(* Claims about init *)

AbortedAt == aborted[1]

\* C9: once the user has aborted a required prompt of init (continent,
\* region, environments, instance or OS), no prompt is shown and no request
\* is made after that prompt, no file is written, and the run ends with
\* exit code 1.
C9_AbortEndsTheRunAtOnce ==
    aborted # None =>
        /\ Len(prompts) = AbortedAt.prompts
        /\ Len(fetches) = AbortedAt.fetches
        /\ files = <<>>
        /\ pc = "exited" => exit_code = Some(1)

\* A response with a status other than 200, or with success: false.
FetchFailed(response) ==
    \/ response.status_code # HttpOk
    \/ ~(Has(response.json, "success") /\ response.json.success)

\* The fetch of the zone id or of the DNS records failed: init holds no
\* record list.
DnsFetchFailed == Bound("dns_records") /\ locals["dns_records"] = None

\* C10: when a DNS provider fetch fails, both fetch functions return an
\* absent result, and init goes through the availability checks of the
\* selected environments without an exception: every check made returns,
\* and the run does not end in an exception raised by a check.
C10_FailedDnsFetchIsNothingFound ==
    /\ \A response \in ZoneResponses :
        FetchFailed(response) => get_cloudflare_zone_id(response) = None
    /\ \A response \in RecordsResponses(None) \cup RecordsResponses(Some("zone-1")) :
        FetchFailed(response) => get_cloudflare_dns_records(response) = None
    /\ (DnsFetchFailed /\ Bound("envs")) =>
        \A k \in DOMAIN checks : IsReturned(checks[k].outcome)

\* The environments init selected, and the paths of the files init writes
\* for them, in the order of the list: {env}-config.toml, then {env}.env.
SelectedEnvs == locals["envs"]

ExpectedPaths ==
    [k \in 1..(2 * Len(SelectedEnvs)) |->
        IF k % 2 = 1 THEN SelectedEnvs[(k + 1) \div 2] \o ConfigSuffix
        ELSE SelectedEnvs[k \div 2] \o EnvSuffix]

\* Every selected environment has its instance and its image.
SelectionsComplete ==
    /\ Bound("envs")
    /\ Bound("env_instance_types") /\ Bound("env_os_choices")
    /\ \A k \in DOMAIN SelectedEnvs :
        /\ Has(locals["env_instance_types"], SelectedEnvs[k])
        /\ Has(locals["env_os_choices"], SelectedEnvs[k])

RECURSIVE ChecksDue(_)
ChecksDue(k) ==
    IF k = 0 THEN 0 ELSE ChecksDue(k - 1) + Len(AskedSubdomains(SelectedEnvs[k]))

\* The DNS checks init was to make have all been made and have returned:
\* those of every environment when the records were fetched, none when
\* --domain-to-configure was given.
DnsChecksComplete ==
    /\ \A k \in DOMAIN checks : IsReturned(checks[k].outcome)
    /\ Len(checks) = IF Bound("dns_records") THEN ChecksDue(Len(SelectedEnvs)) ELSE 0

WritePhase == pc \in {"write_config", "write_env", "exited"}

---------------------------------------------------------------------------
(* Further claims about the price resolvers *)

\* Neither the base price nor the override that applies supplies field f.
Unsupplied(f) ==
    /\ ~Has(BaseOf(item), f)
    /\ Matching = {} \/ ~Has(Override, f)

\* A finite number of the model.
Finite(x) == x \in Int

\* C12: when the item has no base price for a field and no region override
\* supplies it, _pick_price returns a price whose field is a number that is
\* not finite (and so not zero).
C12_UnpricedFieldIsNotFinite ==
    price # Pending =>
        \A f \in PriceFields :
            Unsupplied(f) => IsReturned(price) /\ ~Finite(price.value[f])

\* Field f after the first matching entry alone has been applied over the
\* base price: {} when neither carries it.
FirstMatchOverBase(f) ==
    IF Has(Override, f) THEN {Override[f]}
    ELSE IF Has(BaseOf(item), f) THEN {BaseOf(item)[f]}
    ELSE {}

\* C15: when entries of region_prices have the region id, _pick_price
\* applies the first of them in list order and none of the later ones: each
\* field the first carries is overridden, each field it does not carry
\* keeps the base value, whatever the later entries carry; and the call
\* returns whenever that gives both fields.
C15_FirstMatchOnlyFieldByField ==
    (price # Pending /\ Matching # {}) =>
        /\ IsReturned(price) =>
                \A f \in PriceFields : FirstMatchOverBase(f) = {price.value[f]}
        /\ (\A f \in PriceFields : FirstMatchOverBase(f) # {}) => IsReturned(price)

\* Two entries of the region: the first carries hourly alone, the second a
\* different hourly and a monthly that is not the base's.
C15_Witness ==
    /\ IsReturned(price)
    /\ Cardinality(Matching) = 2
    /\ PriceFields \subseteq DOMAIN BaseOf(item)
    /\ DOMAIN Override = {"id", "hourly"}
    /\ LET later == item.region_prices[CHOOSE i \in Matching : \A j \in Matching : i >= j]
       IN  /\ PriceFields \subseteq DOMAIN later
           /\ later.hourly # Override.hourly
           /\ later.monthly # item.price.monthly
    /\ price.value = [hourly |-> Override.hourly, monthly |-> item.price.monthly]
    /\ item.price.hourly # Override.hourly

\* The item's backups add-on; an add-on that is absent, null or an empty
\* object is no add-on.
Addon ==
    IF Has(item, "addons") /\ Has(item.addons, "backups")
    THEN item.addons.backups ELSE <<>>

HasAddon == DOMAIN Addon # {}

AddonBase == IF Has(Addon, "price") THEN Addon.price ELSE <<>>

\* The entries of the add-on's region_prices whose id is the region id, and
\* the earliest of them.
AddonMatching ==
    {i \in Indices(ListOrEmpty(Addon, "region_prices")) :
        LET rp == Addon.region_prices[i]
        IN  Has(rp, "id") /\ rp.id = region_id}

AddonOverride ==
    Addon.region_prices[CHOOSE i \in AddonMatching : \A j \in AddonMatching : i <= j]

\* Field f of the add-on's price under first-match resolution: {} when
\* neither the override nor the add-on's base price carries it.
ExpectedBackup(f) ==
    IF AddonMatching # {} /\ Has(AddonOverride, f) THEN {AddonOverride[f]}
    ELSE IF Has(AddonBase, f) THEN {AddonBase[f]}
    ELSE {}

\* The record get_instances_for_region appends for the item from the two
\* prices.
AppendedRecord ==
    NormalizedInstance([id |-> "g6"] @@ item, price.value, backup_price.value)

\* C13: _pick_backup_price returns None, and does not raise, exactly when
\* the item has no backups add-on; otherwise what it returns is the add-on's
\* own base price under first-match resolution against the add-on's own
\* region_prices, and it does return when that resolution gives both fields;
\* the record get_instances_for_region builds has backups_hourly and
\* backups_monthly null exactly when the result is None, and carries the
\* result otherwise.
C13_BackupPriceOfTheAddon ==
    backup_price # Pending =>
        /\ (backup_price = Returned(<<>>)) <=> ~HasAddon
        /\ (HasAddon /\ IsReturned(backup_price)) =>
                \A f \in PriceFields : ExpectedBackup(f) = {backup_price.value[f]}
        /\ (HasAddon /\ \A f \in PriceFields : ExpectedBackup(f) # {}) =>
                IsReturned(backup_price)
        /\ (IsReturned(price) /\ IsReturned(backup_price)) =>
                /\ (backup_price.value = <<>>) <=>
                        ~\E k \in {"backups_hourly", "backups_monthly"} :
                            Has(AppendedRecord, k)
                /\ backup_price.value # <<>> =>
                        /\ AppendedRecord.backups_hourly = backup_price.value.hourly
                        /\ AppendedRecord.backups_monthly = backup_price.value.monthly

\* An add-on whose override applies, on an item with a price of its own and
\* overrides of its own for the region.
C13_Witness ==
    /\ IsReturned(price) /\ IsReturned(backup_price)
    /\ HasAddon /\ AddonMatching # {}
    /\ PriceFields \subseteq DOMAIN AddonBase
    /\ backup_price.value # AddonBase
    /\ Matching # {}
    /\ backup_price.value # price.value
    /\ AppendedRecord.backups_monthly = AddonOverride.monthly

---------------------------------------------------------------------------
(* Further claims about the image catalog filter *)

\* The image passes the five predicates other than the vendor predicate, for
\* a call made at instant t: only the vendor predicate can drop it.
PassesAllButVendor(img, t) ==
    /\ PassesPublic(img) /\ PassesStatus(img) /\ PassesCapabilities(img)
    /\ PassesRegion(img) /\ PassesEol(img, t)

\* The vendor predicate as the claim words it: the vendor and the entries
\* are compared case-folded, as they are given.
FoldedVendorMatches(img) ==
    \E i \in DOMAIN include_vendors :
        Lower(include_vendors[i]) = Lower(StrOrEmpty(img, "vendor"))

\* The vendor predicate with surrounding whitespace stripped on both sides
\* and the entries that are empty after stripping left out.
StrippedVendorMatches(img) ==
    \E i \in DOMAIN include_vendors :
        /\ Strip(include_vendors[i]) # <<>>
        /\ Lower(Strip(include_vendors[i])) = Lower(Strip(StrOrEmpty(img, "vendor")))

DroppedFromOses(img) == CountId(oses.value, img.id) = 0

---------------------------------------------------------------------------
(* Claims about choose_instance *)

\* The place of the i-th instance of the given list among the choices:
\* behind every instance of a lower monthly price, and behind the earlier
\* instances of the same monthly price.
PlaceOf(i) ==
    1 + Cardinality({j \in DOMAIN given :
            \/ PriceMonthlyKey(given[j]) < PriceMonthlyKey(given[i])
            \/ PriceMonthlyKey(given[j]) = PriceMonthlyKey(given[i]) /\ j < i})

\* C16: the choices choose_instance presents are the instances it was given
\* in ascending order of price_monthly, instances of equal price in their
\* input order; the list it was given is the same afterwards, in order and
\* contents.
C16_ChoicesAscendingStableListUntouched ==
    choices # Pending =>
        /\ IsReturned(choices)
        /\ Len(choices.value) = Len(given)
        /\ \A i \in DOMAIN given :
            /\ choices.value[PlaceOf(i)].row = given[i]
            /\ choices.value[PlaceOf(i)].value = given[i].id
        /\ \A k \in 1..(Len(choices.value) - 1) :
            PriceMonthlyKey(choices.value[k].row)
                <= PriceMonthlyKey(choices.value[k + 1].row)
        /\ listed = given

\* A dearer instance first, then two different instances of one price: the
\* choices start with those two in their input order, and the list given is
\* not in the order of the choices.
C16_Witness ==
    /\ choices # Pending
    /\ Len(given) = 3
    /\ PriceMonthlyKey(given[1]) > PriceMonthlyKey(given[2])
    /\ PriceMonthlyKey(given[2]) = PriceMonthlyKey(given[3])
    /\ given[2].id # given[3].id
    /\ choices.value[1].row = given[2]
    /\ choices.value[2].row = given[3]
    /\ choices.value[3].row = given[1]
    /\ listed = given

---------------------------------------------------------------------------
(* Further claims about init *)

\* The dicts init fills for each environment.
PerEnvDicts ==
    {"env_instance_types", "env_os_choices", "env_backups_enabled",
     "env_instance_tags", "env_stripe_api_keys", "env_sendgrid_api_keys"}

\* The environment list and, for every environment of it, the instance,
\* image, backups, tags and key selections have been set.
EverythingSelected ==
    /\ Bound("envs")
    /\ \A d \in PerEnvDicts :
        /\ Bound(d)
        /\ \A k \in DOMAIN SelectedEnvs : Has(locals[d], SelectedEnvs[k])

\* The configuration files written so far.
ConfigFilesWritten == SelectSeq(files, LAMBDA f : Has(f, "instance_type"))

\* C17: whenever init is in its file-write phase (from the creation of the
\* config directory on), whatever flags it was given, the environment list
\* and every per-environment selection are set; each configuration file
\* written names a chosen instance id and image id; and a run that ends
\* there without a refused write has written one for every environment.
C17_WritePhaseHasEverySelection ==
    /\ pc \in {"make_config_dir", "write_config", "write_env"} =>
        EverythingSelected
    /\ \A k \in DOMAIN ConfigFilesWritten :
        /\ ConfigFilesWritten[k].instance_type # <<>>
        /\ ConfigFilesWritten[k].image # <<>>
    /\ (pc = "exited" /\ exit_code = Some(0)) =>
        Len(ConfigFilesWritten) = Len(SelectedEnvs)

DomainPrompted == \E k \in DOMAIN prompts : prompts[k].prompt = "domain"

RanToCompletion == pc = "exited" /\ exit_code = Some(0)

\* The records the preview plans for an environment init configured.
PlannedFor(env) == planned_dns_records(locals["domain_to_configure"], env).value

\* The name was asked about for the environment, against the records init
\* fetched, and the call returned.  DNS names are compared case-folded, as
\* subdomain_is_available compares them.
WasChecked(env, name) ==
    \E c \in DOMAIN checks :
        /\ checks[c].env = env
        /\ checks[c].name = Lower(name)
        /\ IsReturned(checks[c].outcome)
        /\ checks[c].outcome =
                subdomain_is_available(locals["dns_records"], checks[c].subdomain,
                                       locals["domain_to_configure"])

\* C18: in a run of init that prompted for the domain and ended well, every
\* record name _planned_dns_records plans for a configured environment was
\* asked about through subdomain_is_available against the fetched records,
\* and init takes an environment for prod (the root, www, api branch)
\* exactly when _planned_dns_records plans the prod records for it.
C18_PlannedNamesWereChecked ==
    (RanToCompletion /\ DomainPrompted) =>
        \A k \in DOMAIN SelectedEnvs :
            LET env == SelectedEnvs[k]
            IN  /\ \A j \in DOMAIN PlannedFor(env) :
                        WasChecked(env, PlannedFor(env)[j].Name)
                /\ (env = Prod) <=> ~IsNonProd(env)
                /\ (env = Prod) <=> WasChecked(env, locals["domain_to_configure"])

\* A run for dev and prod on a domain typed with a capital: both branches
\* of both classifications, five checks.
C18_Witness ==
    /\ RanToCompletion /\ DomainPrompted
    /\ SelectedEnvs = <<Dev, Prod>>
    /\ locals["domain_to_configure"] # Lower(locals["domain_to_configure"])
    /\ Len(checks) = Len(AskedSubdomains(Dev)) + Len(AskedSubdomains(Prod))
    /\ Len(PlannedFor(Dev)) + Len(PlannedFor(Prod)) < Len(checks)
    /\ \E c \in DOMAIN checks : checks[c].outcome = Returned(FALSE)

===========================================================================





